---- MODULE Spec2Model ----
(***************************************************************************)
(* State-machine model of src/src/App.js (React expense tracker).          *)
(*                                                                         *)
(* Representation                                                          *)
(*   amounts        integers in thousandths of a currency unit, so that    *)
(*                  20.00 is 20000 and 0.006 is 6                          *)
(*   date strings   "YYYY-MM-DD" is the tuple <<y, m, d>> with m in 1..12, *)
(*                  the empty string is <<>>                               *)
(*   Date objects   records [y, m, d] with m in 0..11 as getMonth() gives  *)
(*   text typed in  the amount box: a sequence of one-character strings    *)
(*   toFixed(2)     [neg, cents]: the sign printed and the rounded         *)
(*                  magnitude in hundredths                                *)
(*   document ids   positive integers; the null editingId is NoId          *)
(***************************************************************************)
EXTENDS Integers, Sequences, FiniteSets, TLC

VARIABLES
    docs,                 \* the user's collection as the Firestore client sees it
    usedIds,              \* ids the store has ever assigned
    delivered,            \* the docs of the last snapshot handed to the listener
    transactions,         \* useState([])            line 187
    filter,               \* useState('all')         line 188
    text,                 \* useState('')            line 189
    amount,               \* useState('')            line 190
    category,             \* useState('Food')        line 191
    transactionType,      \* useState('expense')     line 192
    date,                 \* useState(today)         line 193
    editingId,            \* useState(null)          line 194
    selectedDate,         \* useState(new Date())    line 195
    formError,            \* useState('')            line 198
    summary,              \* useMemo {total, income, expense}   lines 236-242
    filteredTransactions, \* useMemo                 lines 244-253
    expenseData,          \* DoughnutChart's reduce  lines 95-100
    pending,              \* create/update/delete promises not yet settled
    user,                 \* App's useState(null)    line 481
    loading,              \* App's useState(true)    line 484
    authReported,         \* the onAuthStateChanged callback has run
    effectDue,            \* a render left the snapshot effect to run
    snapshotDue,          \* a new listener awaits its first snapshot
    listeners             \* snapshot listeners subscribed and not unsubscribed

vars == <<docs, usedIds, delivered, transactions, filter, text, amount, category,
          transactionType, date, editingId, selectedDate, formError, summary,
          filteredTransactions, expenseData, pending, user, loading,
          authReported, effectDue, snapshotDue, listeners>>

\* the state outside the tracker's own hooks: App's, and the snapshot effect's
mountVars == <<user, loading, authReported, effectDue, snapshotDue, listeners>>

formVars == <<text, amount, category, transactionType, date>>

----------------------------------------------------------------------------
(* Bounds *)

MaxDocs == 2          \* documents the form's commands ever create
MaxRecords == 2       \* documents any writer puts in the collection
MaxInFlight == 1      \* commands awaiting the store at one time
MaxMonthsAway == 2    \* month navigation stays this close to the current month

NoId == 0

\* currentUser is null when nobody is signed in
NoUser == ""

Users == {"u1", "u2"}

Ids == 1..MaxDocs

----------------------------------------------------------------------------
(* Program constants *)

expenseCategories == {"Food", "Transport", "Bills", "Gadgets", "Entertainment", "Other"}
incomeCategories == {"Salary", "Freelance", "Investment", "Other"}

MsgMissingField == "Please fill out all fields."
MsgInvalidAmount == "Amount must be a positive number."
MsgStoreError == "Could not save transaction. Please try again."

\* new Date().toISOString().slice(0, 10): the day the session runs on
Today == <<2024, 1, 31>>

----------------------------------------------------------------------------
(* Calendar arithmetic of the JavaScript Date object *)

IsLeap(y) == (y % 4 = 0 /\ y % 100 # 0) \/ y % 400 = 0

\* m0 is a getMonth() value, 0..11
DaysInMonth(y, m0) ==
    IF m0 = 1 THEN (IF IsLeap(y) THEN 29 ELSE 28)
    ELSE IF m0 \in {3, 5, 8, 10} THEN 30 ELSE 31

RECURSIVE DaysBeforeMonth(_, _)
DaysBeforeMonth(y, m0) ==
    IF m0 = 0 THEN 0 ELSE DaysBeforeMonth(y, m0 - 1) + DaysInMonth(y, m0 - 1)

\* new Date("YYYY-MM-DD") as a day count; the subtraction in the sort comparator
\* compares these
DateValue(ds) ==
    LET y == ds[1]
        p == y - 1
    IN  365 * p + (p \div 4) - (p \div 100) + (p \div 400)
        + DaysBeforeMonth(y, ds[2] - 1) + ds[3]

\* new Date(t.date + 'T00:00:00'): local midnight of that day
LocalDate(ds) == [y |-> ds[1], m |-> ds[2] - 1, d |-> ds[3]]

\* Date.prototype.setMonth(m): the month is normalised into the year, and a
\* day of month past the end of the target month runs over into the next one
SetMonth(cur, m) ==
    LET y1 == cur.y + (m \div 12)
        m1 == m % 12
        dim == DaysInMonth(y1, m1)
    IN  IF cur.d <= dim
        THEN [y |-> y1, m |-> m1, d |-> cur.d]
        ELSE [y |-> y1, m |-> m1 + 1, d |-> cur.d - dim]

----------------------------------------------------------------------------
(* Number formatting and parsing *)

Abs(x) == IF x < 0 THEN -x ELSE x

\* Number.prototype.toFixed(2) of x thousandths
ToFixed2(x) ==
    [neg |-> x < 0, cents |-> (Abs(x) + 5) \div 10]

\* the number a toFixed(2) string denotes, in hundredths
FixedValue(s) == IF s.neg THEN -s.cents ELSE s.cents

Digits == {"0", "1", "2", "3", "4", "5", "6", "7", "8", "9"}

DigitValue(c) ==
    CASE c = "0" -> 0 [] c = "1" -> 1 [] c = "2" -> 2 [] c = "3" -> 3
      [] c = "4" -> 4 [] c = "5" -> 5 [] c = "6" -> 6 [] c = "7" -> 7
      [] c = "8" -> 8 [] c = "9" -> 9

\* length of the run of digits of s that starts at position i
RECURSIVE DigitRun(_, _)
DigitRun(s, i) ==
    IF i <= Len(s) /\ s[i] \in Digits THEN 1 + DigitRun(s, i + 1) ELSE 0

\* value of the n digits of s from position i
RECURSIVE DigitsValue(_, _, _)
DigitsValue(s, i, n) ==
    IF n = 0 THEN 0
    ELSE 10 * DigitsValue(s, i, n - 1) + DigitValue(s[i + n - 1])

\* thousandths denoted by the n fraction digits of s from position i
FractionValue(s, i, n) ==
    LET d(k) == IF k <= n THEN DigitValue(s[i + k - 1]) ELSE 0
    IN  100 * d(1) + 10 * d(2) + d(3)

NaN == [nan |-> TRUE, v |-> 0]
Num(x) == [nan |-> FALSE, v |-> x]

\* parseFloat of a string: the longest prefix that is a decimal literal
\* (sign, digits, point, digits); NaN when there is none
ParseFloatStr(s) ==
    LET signed == Len(s) >= 1 /\ s[1] \in {"-", "+"}
        start == IF signed THEN 2 ELSE 1
        nInt == DigitRun(s, start)
        dot == start + nInt
        hasDot == dot <= Len(s) /\ s[dot] = "."
        nFrac == IF hasDot THEN DigitRun(s, dot + 1) ELSE 0
        mag == 1000 * DigitsValue(s, start, nInt) + FractionValue(s, dot + 1, nFrac)
    IN  IF nInt + nFrac = 0 THEN NaN
        ELSE Num(IF signed /\ s[1] = "-" THEN -mag ELSE mag)

\* the value sanitization of <input type="number">: text that is not a valid
\* floating-point number (optional "-", digits and/or "." digits) reads as ""
IsValidFloat(s) ==
    LET start == IF Len(s) >= 1 /\ s[1] = "-" THEN 2 ELSE 1
        nInt == DigitRun(s, start)
        dot == start + nInt
        hasDot == dot <= Len(s) /\ s[dot] = "."
        nFrac == IF hasDot THEN DigitRun(s, dot + 1) ELSE 0
        end == IF hasDot THEN dot + nFrac ELSE dot - 1
    IN  /\ nInt + nFrac > 0
        /\ hasDot => nFrac > 0
        /\ end = Len(s)

NumberInputValue(typed) == IF IsValidFloat(typed) THEN typed ELSE <<>>

\* the amount state holds the input's string or, after handleEditTransaction,
\* a number
StrAmount(s) == [isNum |-> FALSE, str |-> s, num |-> 0]
NumAmount(x) == [isNum |-> TRUE, str |-> <<>>, num |-> x]

\* !amount
AmountFalsy(a) == IF a.isNum THEN a.num = 0 ELSE a.str = <<>>

\* parseFloat(amount); a number argument is converted to its string and read back
ParseFloat(a) == IF a.isNum THEN Num(a.num) ELSE ParseFloatStr(a.str)

----------------------------------------------------------------------------
(* Record Store: the documents and the snapshot handed to the listener *)

DocIds(ds) == {r.id : r \in ds}

Doc(id, data) ==
    [id |-> id, text |-> data.text, amount |-> data.amount,
     category |-> data.category, type |-> data.type, date |-> data.date]

\* querySnapshot.docs.map(doc => ({ ...doc.data(), id: doc.id })): a query with
\* no orderBy lists the documents by document id
RECURSIVE Snapshot(_)
Snapshot(ds) ==
    IF ds = {} THEN <<>>
    ELSE LET last == CHOOSE r \in ds : \A o \in ds : o.id <= r.id
         IN  Append(Snapshot(ds \ {last}), last)

----------------------------------------------------------------------------
(* Ledger: the listener's sort and the values derived from the list *)

\* faulty variant: the comparator with its operands swapped
CompareAsc(a, b) == DateValue(a.date) - DateValue(b.date)

\* the comparator (a, b) => new Date(b.date) - new Date(a.date)
CompareDesc(a, b) == DateValue(b.date) - DateValue(a.date)

\* x goes behind every element that the comparator does not put after it
RECURSIVE InsertSorted(_, _)
InsertSorted(sorted, x) ==
    IF sorted = <<>> THEN <<x>>
    ELSE IF CompareDesc(Head(sorted), x) <= 0
         THEN <<Head(sorted)>> \o InsertSorted(Tail(sorted), x)
         ELSE <<x>> \o sorted

\* Array.prototype.sort with that comparator: a stable sort
RECURSIVE SortByDate(_)
SortByDate(s) ==
    IF s = <<>> THEN <<>>
    ELSE InsertSorted(SortByDate(SubSeq(s, 1, Len(s) - 1)), s[Len(s)])

\* reduce((acc, item) => acc + item, 0)
RECURSIVE SumSeq(_)
SumSeq(s) == IF s = <<>> THEN 0 ELSE Head(s) + SumSeq(Tail(s))

\* faulty variant: the amounts of the selected month only
AmountsOfMonth(trans) ==
    LET inMonth(t) == LocalDate(t.date).y = selectedDate.y
                      /\ LocalDate(t.date).m = selectedDate.m
        shown == SelectSeq(trans, inMonth)
    IN  [i \in 1..Len(shown) |-> shown[i].amount]

\* transactions.map(t => t.amount)
Amounts(trans) == [i \in 1..Len(trans) |-> trans[i].amount]

Summary(trans) ==
    LET amounts == Amounts(trans)
        pos(x) == x > 0
        neg(x) == x < 0
    IN  [total |-> ToFixed2(SumSeq(amounts)),
         income |-> ToFixed2(SumSeq(SelectSeq(amounts, pos))),
         expense |-> ToFixed2(SumSeq(SelectSeq(amounts, neg)) * (-1))]

\* faulty variant: the chart is handed the displayed list
ChartFiltered(trans, filtered) == filtered

\* the transactions prop of <DoughnutChart>
ChartTransactions(trans, filtered) == trans

\* faulty variant: the amounts are added with their sign, without Math.abs
RECURSIVE ExpenseDataSigned(_)
ExpenseDataSigned(trans) ==
    IF trans = <<>> THEN <<>>
    ELSE LET acc == ExpenseDataSigned(SubSeq(trans, 1, Len(trans) - 1))
             t == trans[Len(trans)]
             old == IF t.category \in DOMAIN acc THEN acc[t.category] ELSE 0
         IN  IF t.type = "expense"
             THEN [c \in DOMAIN acc \cup {t.category} |->
                      IF c = t.category THEN old + t.amount ELSE acc[c]]
             ELSE acc

\* transactions.filter(t => t.type === 'expense').reduce(...) keyed by category
RECURSIVE ExpenseData(_)
ExpenseData(trans) ==
    IF trans = <<>> THEN <<>>
    ELSE LET acc == ExpenseData(SubSeq(trans, 1, Len(trans) - 1))
             t == trans[Len(trans)]
             old == IF t.category \in DOMAIN acc THEN acc[t.category] ELSE 0
         IN  IF t.type = "expense"
             THEN [c \in DOMAIN acc \cup {t.category} |->
                      IF c = t.category THEN old + Abs(t.amount) ELSE acc[c]]
             ELSE acc

\* faulty variant: the year is not compared
InSameMonthOfAnyYear(t, sel) == LocalDate(t.date).m = sel.m

InSelectedMonth(t, sel) ==
    LET transactionDate == LocalDate(t.date)
    IN  transactionDate.y = sel.y /\ transactionDate.m = sel.m

FilteredTransactions(trans, flt, sel) ==
    LET inMonth(t) == InSelectedMonth(t, sel)
        ofType(t) == t.type = flt
        monthlyTransactions == SelectSeq(trans, inMonth)
    IN  IF flt = "all" THEN monthlyTransactions
        ELSE SelectSeq(monthlyTransactions, ofType)

\* faulty variant: the snapshot is added to the list instead of replacing it
AppendTransactions(prev, snap) == SortByDate(prev \o snap)

\* what setTransactions stores when a snapshot arrives
NextTransactions(prev, snap) == SortByDate(snap)

\* the onSnapshot callback, with the re-render that follows setTransactions
OnSnapshot(snap) ==
    /\ delivered' = snap
    /\ transactions' = NextTransactions(transactions, snap)
    /\ summary' = Summary(transactions')
    /\ filteredTransactions' = FilteredTransactions(transactions', filter, selectedDate)
    /\ expenseData' = ExpenseData(ChartTransactions(transactions', filteredTransactions'))

----------------------------------------------------------------------------
(* View controls *)

MonthIndex(sel) == 12 * sel.y + sel.m

setFilter(f) ==
    /\ filter' = f
    /\ filteredTransactions' = FilteredTransactions(transactions, f, selectedDate)
    /\ UNCHANGED <<mountVars, docs, usedIds, delivered, transactions, formVars, editingId,
                   selectedDate, formError, summary, expenseData, pending>>

handleMonthChange(offset) ==
    LET newDate == SetMonth(selectedDate, selectedDate.m + offset)
    IN  /\ Abs(MonthIndex(newDate) - MonthIndex(LocalDate(Today))) <= MaxMonthsAway
        /\ selectedDate' = newDate
        /\ filteredTransactions' = FilteredTransactions(transactions, filter, newDate)
        /\ UNCHANGED <<mountVars, docs, usedIds, delivered, transactions, filter, formVars,
                       editingId, formError, summary, expenseData, pending>>

----------------------------------------------------------------------------
(* Initial state: the first render of ExpenseTracker *)

\* ExpenseTracker is on screen for a signed-in user and its listener is
\* subscribed
Mounted ==
    /\ user = "u1"
    /\ loading = FALSE
    /\ authReported = TRUE
    /\ effectDue = FALSE
    /\ snapshotDue = FALSE
    /\ listeners = 1

Init ==
    /\ docs = {}
    /\ usedIds = {}
    /\ delivered = <<>>
    /\ transactions = <<>>
    /\ filter = "all"
    /\ text = ""
    /\ amount = StrAmount(<<>>)
    /\ category = "Food"
    /\ transactionType = "expense"
    /\ date = Today
    /\ editingId = NoId
    /\ selectedDate = LocalDate(Today)
    /\ formError = ""
    /\ summary = Summary(<<>>)
    /\ filteredTransactions = <<>>
    /\ expenseData = <<>>
    /\ pending = <<>>
    /\ Mounted

----------------------------------------------------------------------------
(* Ledger specification: any writer changes the collection one document at *)
(* a time, the store notifies the listener, the user changes the view.     *)

RecordPool ==
    { [text |-> "Groceries", amount |-> -20000, type |-> "expense",
       category |-> "Food", date |-> <<2024, 1, 5>>],
      [text |-> "Pay", amount |-> 100000, type |-> "income",
       category |-> "Salary", date |-> <<2024, 1, 10>>],
      [text |-> "Snack", amount |-> -5000, type |-> "expense",
       category |-> "Food", date |-> <<2024, 2, 1>>],
      [text |-> "Bus", amount |-> -2, type |-> "expense",
       category |-> "Transport", date |-> <<2024, 1, 5>>],
      [text |-> "Tip", amount |-> 6, type |-> "income",
       category |-> "Other", date |-> <<2023, 1, 5>>],
      [text |-> "Refund", amount |-> 3000, type |-> "expense",
       category |-> "Food", date |-> <<2024, 1, 10>>] }

\* a document is written (created or replaced) and the listener is called
StoreWrite(id, data) ==
    /\ docs' = {r \in docs : r.id # id} \cup {Doc(id, data)}
    /\ usedIds' = usedIds \cup {id}
    /\ OnSnapshot(Snapshot(docs'))
    /\ UNCHANGED <<mountVars, filter, formVars, editingId, selectedDate, formError, pending>>

\* a document is removed and the listener is called
StoreRemove(id) ==
    /\ id \in DocIds(docs)
    /\ docs' = {r \in docs : r.id # id}
    /\ OnSnapshot(Snapshot(docs'))
    /\ UNCHANGED <<mountVars, usedIds, filter, formVars, editingId, selectedDate, formError,
                   pending>>

\* the effect runs again: unsubscribe, subscribe, and the new listener gets
\* the current documents
Resubscribe ==
    /\ OnSnapshot(Snapshot(docs))
    /\ UNCHANGED <<mountVars, docs, usedIds, filter, formVars, editingId, selectedDate,
                   formError, pending>>

NextLedger ==
    \/ \E id \in 1..MaxRecords, data \in RecordPool : StoreWrite(id, data)
    \/ \E id \in 1..MaxRecords : StoreRemove(id)
    \/ Resubscribe
    \/ \E f \in {"all", "income", "expense"} : setFilter(f)
    \/ \E offset \in {-1, 1} : handleMonthChange(offset)

SpecLedger == Init /\ [][NextLedger]_vars

----------------------------------------------------------------------------
(* Month navigation specification: the session starts on any day *)

IsDate(y, m0, d) == d <= DaysInMonth(y, m0)

StartDates ==
    {sel \in [y : (Today[1] - 1)..(Today[1] + 1), m : 0..11, d : 1..31] :
        /\ IsDate(sel.y, sel.m, sel.d)
        /\ Abs(MonthIndex(sel) - MonthIndex(LocalDate(Today))) <= MaxMonthsAway}

InitMonth ==
    /\ docs = {}
    /\ usedIds = {}
    /\ delivered = <<>>
    /\ transactions = <<>>
    /\ filter = "all"
    /\ text = ""
    /\ amount = StrAmount(<<>>)
    /\ category = "Food"
    /\ transactionType = "expense"
    /\ date = Today
    /\ editingId = NoId
    /\ selectedDate \in StartDates
    /\ formError = ""
    /\ summary = Summary(<<>>)
    /\ filteredTransactions = <<>>
    /\ expenseData = <<>>
    /\ pending = <<>>
    /\ Mounted

NextMonth == \E offset \in {-1, 1} : handleMonthChange(offset)

SpecMonth == InitMonth /\ [][NextMonth]_vars

----------------------------------------------------------------------------
(* Form inputs *)

\* the options of the category <select>
CategoryOptions(type) ==
    IF type = "expense" THEN expenseCategories ELSE incomeCategories

TypedTexts == {"", "Lunch"}
TypedAmounts ==
    { <<>>, <<"0">>, <<"-", "5">>, <<"0", ".", "0", "1">>, <<"a", "b", "c">> }
TypedDates == {<<>>, Today}
PickedCategories == {"Food", "Salary"}

ledgerVars == <<docs, usedIds, delivered, transactions, summary,
                filteredTransactions, expenseData>>

setText(t) ==
    /\ text' = t
    /\ UNCHANGED <<mountVars, ledgerVars, filter, amount, category, transactionType, date,
                   editingId, selectedDate, formError, pending>>

\* onChange of the amount box: setAmount(e.target.value)
setAmount(typed) ==
    /\ amount' = StrAmount(NumberInputValue(typed))
    /\ UNCHANGED <<mountVars, ledgerVars, filter, text, category, transactionType, date,
                   editingId, selectedDate, formError, pending>>

setDate(d) ==
    /\ date' = d
    /\ UNCHANGED <<mountVars, ledgerVars, filter, text, amount, category, transactionType,
                   editingId, selectedDate, formError, pending>>

\* the Expense / Income buttons
setTransactionType(type) ==
    /\ transactionType' = type
    /\ UNCHANGED <<mountVars, ledgerVars, filter, text, amount, category, date, editingId,
                   selectedDate, formError, pending>>

\* onChange of the category <select>: one of the options it renders
setCategory(c) ==
    /\ c \in CategoryOptions(transactionType)
    /\ category' = c
    /\ UNCHANGED <<mountVars, ledgerVars, filter, text, amount, transactionType, date,
                   editingId, selectedDate, formError, pending>>

----------------------------------------------------------------------------
(* Commands *)

NoData == [text |-> "", amount |-> 0, category |-> "", type |-> "", date |-> <<>>]

Command(op, id, data) == [op |-> op, id |-> id, data |-> data, st |-> "sent"]

MissingField == text = "" \/ date = <<>>

\* faulty variant: the comparison is strict
InvalidAmountStrict(a) ==
    \/ AmountFalsy(a)
    \/ (~ParseFloat(a).nan /\ ParseFloat(a).v < 0)

\* !amount || parseFloat(amount) <= 0
InvalidAmount(a) ==
    \/ AmountFalsy(a)
    \/ (~ParseFloat(a).nan /\ ParseFloat(a).v <= 0)

\* faulty variant: the magnitude is stored whatever the type
AmountValueUnsigned(a, type) == Abs(ParseFloat(a).v)

\* transactionType === 'expense' ? -Math.abs(parseFloat(amount)) : Math.abs(...)
AmountValue(a, type) ==
    IF type = "expense" THEN -Abs(ParseFloat(a).v) ELSE Abs(ParseFloat(a).v)

TransactionData ==
    [text |-> text, amount |-> AmountValue(amount, transactionType),
     category |-> category, type |-> transactionType, date |-> date]

\* faulty variant: the edit session is not consulted
SubmitCreate(editing) == Command("create", NoId, TransactionData)

\* the command the submit handler awaits
SubmitCommand(editing) ==
    IF editing # NoId
    THEN Command("update", editing, TransactionData)
    ELSE Command("create", NoId, TransactionData)

\* the handler up to its await
handleAddOrUpdateTransaction ==
    /\ IF MissingField
       THEN formError' = MsgMissingField /\ pending' = pending
       ELSE IF InvalidAmount(amount)
       THEN formError' = MsgInvalidAmount /\ pending' = pending
       ELSE /\ Len(pending) < MaxInFlight
            /\ formError' = ""
            /\ pending' = Append(pending, SubmitCommand(editingId))
    /\ UNCHANGED <<mountVars, ledgerVars, filter, formVars, editingId, selectedDate>>

handleDeleteTransaction(id) ==
    /\ \E i \in 1..Len(filteredTransactions) : filteredTransactions[i].id = id
    /\ Len(pending) < MaxInFlight
    /\ pending' = Append(pending, Command("delete", id, NoData))
    /\ UNCHANGED <<mountVars, ledgerVars, filter, formVars, editingId, selectedDate, formError>>

handleEditTransaction(transaction) ==
    /\ editingId' = transaction.id
    /\ text' = transaction.text
    /\ amount' = NumAmount(Abs(transaction.amount))
    /\ transactionType' = transaction.type
    /\ category' = transaction.category
    /\ date' = transaction.date
    /\ formError' = ""
    /\ UNCHANGED <<mountVars, ledgerVars, filter, selectedDate, pending>>

\* the Cancel Edit button, rendered while editingId is set
CancelEdit ==
    /\ editingId # NoId
    /\ editingId' = NoId
    /\ text' = ""
    /\ amount' = StrAmount(<<>>)
    /\ date' = Today
    /\ formError' = ""
    /\ UNCHANGED <<mountVars, ledgerVars, filter, category, transactionType, selectedDate, pending>>

Without(seq, i) == SubSeq(seq, 1, i - 1) \o SubSeq(seq, i + 1, Len(seq))

\* the collection after the store has carried out command c under id
Applied(c, id) ==
    IF c.op = "delete" THEN {r \in docs : r.id # id}
    ELSE {r \in docs : r.id # id} \cup {Doc(id, c.data)}

\* the store carries out command i and notifies the listener
StoreApply(i, id) ==
    /\ i \in 1..Len(pending)
    /\ pending[i].st = "sent"
    /\ CASE pending[i].op = "create" -> id \in Ids \ usedIds
         [] pending[i].op = "update" -> id = pending[i].id /\ id \in DocIds(docs)
         [] pending[i].op = "delete" -> id = pending[i].id
    /\ docs' = Applied(pending[i], id)
    /\ usedIds' = usedIds \cup {id}
    /\ OnSnapshot(Snapshot(docs'))
    /\ pending' = [pending EXCEPT ![i].st = "acked"]
    /\ UNCHANGED <<mountVars, filter, formVars, editingId, selectedDate, formError>>

\* setText(''); setAmount(''); setTransactionType('expense'); setCategory('Food'); setDate(today)
ResetForm ==
    /\ text' = ""
    /\ amount' = StrAmount(<<>>)
    /\ transactionType' = "expense"
    /\ category' = "Food"
    /\ date' = Today

\* the awaited promise of command i resolves: the rest of the try block runs
Resolved(i) ==
    /\ i \in 1..Len(pending)
    /\ pending[i].st = "acked"
    /\ pending' = Without(pending, i)
    /\ CASE pending[i].op = "update" ->
                editingId' = NoId /\ ResetForm /\ UNCHANGED formError
         [] pending[i].op = "create" ->
                ResetForm /\ UNCHANGED <<editingId, formError>>
         [] pending[i].op = "delete" ->
                UNCHANGED <<formVars, editingId, formError>>
    /\ UNCHANGED <<mountVars, ledgerVars, filter, selectedDate>>

\* what the catch block shows the user
CatchMessage(op, shown) == IF op = "delete" THEN shown ELSE MsgStoreError

\* the awaited promise of command i rejects: the catch block runs
Rejected(i) ==
    /\ i \in 1..Len(pending)
    /\ pending[i].st = "sent"
    /\ pending' = Without(pending, i)
    /\ formError' = CatchMessage(pending[i].op, formError)
    /\ UNCHANGED <<mountVars, ledgerVars, filter, formVars, editingId, selectedDate>>

Next ==
    \/ \E t \in TypedTexts : setText(t)
    \/ \E typed \in TypedAmounts : setAmount(typed)
    \/ \E d \in TypedDates : setDate(d)
    \/ \E type \in {"expense", "income"} : setTransactionType(type)
    \/ \E c \in PickedCategories : setCategory(c)
    \/ handleAddOrUpdateTransaction
    \/ \E i \in 1..Len(filteredTransactions) :
            handleEditTransaction(filteredTransactions[i])
    \/ \E i \in 1..Len(filteredTransactions) :
            handleDeleteTransaction(filteredTransactions[i].id)
    \/ CancelEdit
    \/ \E i \in 1..MaxInFlight, id \in Ids : StoreApply(i, id)
    \/ \E i \in 1..MaxInFlight : Resolved(i)
    \/ \E i \in 1..MaxInFlight : Rejected(i)

Spec == Init /\ [][Next]_vars

----------------------------------------------------------------------------
(* App: the auth listener and the screen App renders.  The account's       *)
(* collection exists in the store whatever App shows.                      *)

\* the collections the account may hold when the page is opened
StoredCollections ==
    {{Doc(id, f[id]) : id \in {i \in 1..MaxRecords : f[i] # NoData}} :
        f \in [1..MaxRecords -> RecordPool \cup {NoData}]}

\* the values ExpenseTracker's hooks take on a first render
FirstRender ==
    /\ delivered = <<>>
    /\ transactions = <<>>
    /\ filter = "all"
    /\ text = ""
    /\ amount = StrAmount(<<>>)
    /\ category = "Food"
    /\ transactionType = "expense"
    /\ date = Today
    /\ editingId = NoId
    /\ selectedDate = LocalDate(Today)
    /\ formError = ""
    /\ summary = Summary(<<>>)
    /\ filteredTransactions = <<>>
    /\ expenseData = <<>>
    /\ pending = <<>>

trackerVars == <<delivered, transactions, filter, formVars, editingId, selectedDate,
                 formError, summary, filteredTransactions, expenseData, pending>>

InitApp ==
    /\ docs \in StoredCollections
    /\ usedIds = DocIds(docs)
    /\ FirstRender
    /\ user = NoUser
    /\ loading = TRUE
    /\ authReported = FALSE
    /\ effectDue = FALSE
    /\ snapshotDue = FALSE
    /\ listeners = 0

\* what App returns: if (loading) Loading...; user ? ExpenseTracker : AuthComponent
Screen ==
    IF loading THEN "loading"
    ELSE IF user # NoUser THEN "tracker" ELSE "login"

\* the callback handed to onAuthStateChanged: setUser(currentUser), then
\* setLoading(false).  App declares const [loading] = useState(true) without
\* a setter, so the second call throws ReferenceError and loading keeps its
\* value.
onAuthStateChanged(currentUser) ==
    /\ user' = currentUser
    /\ loading' = loading
    /\ authReported' = TRUE
    /\ UNCHANGED <<docs, usedIds, trackerVars, effectDue, snapshotDue, listeners>>

NextApp == \E currentUser \in Users \cup {NoUser} : onAuthStateChanged(currentUser)

\* Firebase reports the auth state
SpecApp == InitApp /\ [][NextApp]_vars /\ WF_vars(NextApp)

----------------------------------------------------------------------------
(* The snapshot effect of a mounted ExpenseTracker: fixed user, no writer. *)

InitSubscription ==
    /\ docs \in StoredCollections
    /\ usedIds = DocIds(docs)
    /\ FirstRender
    /\ user \in Users
    /\ loading = FALSE
    /\ authReported = TRUE
    /\ effectDue = TRUE
    /\ snapshotDue = FALSE
    /\ listeners = 0

\* collection(db, 'users', user.uid, 'transactions') is evaluated in the body
\* of the component: every render makes a new reference object
SameCollectionRef == FALSE

\* the dependencies [user.uid, transactionsCollectionRef] compared by Object.is
DepsChanged(prevUid, uid) == prevUid # uid \/ ~SameCollectionRef

\* the cleanup of the previous run of the effect
Unsubscribed == IF listeners > 0 THEN listeners - 1 ELSE 0

\* the effect: unsubscribe the previous listener, subscribe a new one
RunSnapshotEffect ==
    /\ effectDue
    /\ listeners' = Unsubscribed + 1
    /\ snapshotDue' = TRUE
    /\ effectDue' = FALSE
    /\ UNCHANGED <<docs, usedIds, trackerVars, user, loading, authReported>>

\* the listener's first snapshot: setTransactions(new array), and the render
\* that follows it
DeliverSnapshot ==
    /\ snapshotDue
    /\ listeners > 0
    /\ OnSnapshot(Snapshot(docs))
    /\ snapshotDue' = FALSE
    /\ effectDue' = DepsChanged(user, user)
    /\ UNCHANGED <<docs, usedIds, filter, formVars, editingId, selectedDate,
                   formError, pending, user, loading, authReported, listeners>>

NextSubscription == RunSnapshotEffect \/ DeliverSnapshot

\* React runs a due effect, the store delivers a due snapshot
SpecSubscription ==
    /\ InitSubscription
    /\ [][NextSubscription]_vars
    /\ WF_vars(RunSnapshotEffect)
    /\ WF_vars(DeliverSnapshot)

----------------------------------------------------------------------------
(* Vocabulary of the claims *)

\* the enumeration a record of this type draws its category from
EnumerationOf(type) ==
    IF type = "expense" THEN expenseCategories
    ELSE IF type = "income" THEN incomeCategories ELSE {}

IsWrite(c) == c.op \in {"create", "update"}

\* the amount reads as a number strictly greater than 0
PositiveNumber(a) ==
    IF a.isNum THEN a.num > 0
    ELSE IsValidFloat(a.str) /\ ParseFloatStr(a.str).v > 0

\* this step sent exactly one command, the last of pending'
SentOne == Len(pending') = Len(pending) + 1 /\ SubSeq(pending', 1, Len(pending)) = pending

Sent == pending'[Len(pending')]

Range(seq) == {seq[i] : i \in 1..Len(seq)}

RECURSIVE SumOfAmounts(_)
SumOfAmounts(S) ==
    IF S = {} THEN 0
    ELSE LET t == CHOOSE t \in S : TRUE IN t.amount + SumOfAmounts(S \ {t})

RECURSIVE SumOfSizes(_)
SumOfSizes(S) ==
    IF S = {} THEN 0
    ELSE LET t == CHOOSE t \in S : TRUE IN Abs(t.amount) + SumOfSizes(S \ {t})

\* category -> summed absolute amount of the expense records of S
Breakdown(S) ==
    LET expenses == {t \in S : t.type = "expense"}
    IN  [c \in {t.category : t \in expenses} |->
            SumOfSizes({t \in expenses : t.category = c})]

\* the record is dated in the year and month the view shows
DatedInSelection(t) == t.date[1] = selectedDate.y /\ t.date[2] = selectedDate.m + 1

MonthSelection == {t \in Range(transactions) : DatedInSelection(t)}

\* the date string a is a later day than b
Later(a, b) ==
    \/ a[1] > b[1]
    \/ a[1] = b[1] /\ a[2] > b[2]
    \/ a[1] = b[1] /\ a[2] = b[2] /\ a[3] > b[3]

PlaceIn(seq, t) == CHOOSE i \in 1..Len(seq) : seq[i].id = t.id

\* most recent first, records of one date in the order the snapshot lists them
OrderedByDate(list) ==
    \A i, j \in 1..Len(list) :
        i < j => \/ Later(list[i].date, list[j].date)
                 \/ /\ list[i].date = list[j].date
                    /\ PlaceIn(delivered, list[i]) < PlaceIn(delivered, list[j])

\* half a cent or more rounds up
Rounded(x) == IF x >= 0 THEN (x + 5) \div 10 ELSE -((-x + 5) \div 10)

\* the sum of the values of a category -> amount mapping
RECURSIVE SumOfValues(_)
SumOfValues(f) ==
    IF DOMAIN f = {} THEN 0
    ELSE LET c == CHOOSE c \in DOMAIN f : TRUE
         IN  f[c] + SumOfValues([d \in DOMAIN f \ {c} |-> f[d]])

\* the records of the list whose type is expense, in the order of the list
ExpenseOnly(trans) ==
    LET isExpense(t) == t.type = "expense"
    IN  SelectSeq(trans, isExpense)

\* every record typed expense carries an amount that is not positive
ExpensesSigned(trans) ==
    \A t \in Range(trans) : t.type = "expense" => t.amount <= 0

\* the magnitude the draft's amount reads as
Magnitude(a) == IF a.isNum THEN Abs(a.num) ELSE Abs(ParseFloatStr(a.str).v)

\* non-zero amount whose sign is that of the type
Normalized(d) ==
    /\ d.type \in {"expense", "income"}
    /\ d.amount # 0
    /\ d.type = "expense" <=> d.amount < 0

----------------------------------------------------------------------------
(* Claims *)

\* C1: every create or update command sent to the store carries a category of
\* the enumeration of its declared type.
C1_CategoryOfType ==
    \A i \in 1..Len(pending) :
        IsWrite(pending[i]) =>
            pending[i].data.category \in EnumerationOf(pending[i].data.type)

\* C2: a submit whose amount is not a number strictly greater than 0 sends no
\* command and, the required fields being present, shows the invalid-amount
\* message; a submit of 0.01 with the required fields present sends a command.
C2_InvalidAmountRejected ==
    [][handleAddOrUpdateTransaction =>
          IF PositiveNumber(amount)
          THEN ~MissingField => (SentOne /\ IsWrite(Sent) /\ formError' = "")
          ELSE /\ pending' = pending
               /\ ~MissingField => formError' = MsgInvalidAmount]_vars

C2_Witness ==
    /\ formError = MsgInvalidAmount
    /\ pending = <<>>
    /\ text # "" /\ date # <<>>
    /\ amount = StrAmount(<<"-", "5">>)

\* C3: the edit session starts Idle, enters Editing(id) only by
\* handleEditTransaction on record id, returns to Idle only when an update
\* succeeds or the edit is cancelled, is kept by a rejected or failed submit,
\* and decides the command of an accepted submit: one update for id while
\* Editing(id), one create while Idle.
C3_Step ==
    /\ (editingId' # editingId /\ editingId' # NoId) =>
            \E t \in Range(filteredTransactions) :
                t.id = editingId' /\ handleEditTransaction(t)
    /\ (editingId # NoId /\ editingId' = NoId) =>
            \/ CancelEdit
            \/ \E i \in 1..Len(pending) : pending[i].op = "update" /\ Resolved(i)
    /\ handleAddOrUpdateTransaction =>
            /\ editingId' = editingId
            /\ pending' # pending =>
                  /\ SentOne
                  /\ IF editingId # NoId
                     THEN Sent.op = "update" /\ Sent.id = editingId
                     ELSE Sent.op = "create"
    /\ \A i \in 1..Len(pending) :
          /\ Rejected(i) => editingId' = editingId
          /\ (Resolved(i) /\ pending[i].op = "update") => editingId' = NoId

C3_EditSession == editingId = NoId /\ [][C3_Step]_vars

C3_Witness ==
    /\ editingId # NoId
    /\ \E i \in 1..Len(pending) : pending[i].op = "update" /\ pending[i].id = editingId

\* C4: when a create, update or delete command fails at the store the user is
\* shown an error message, nothing is sent again, and the list, the edit
\* session and the draft stay as they were.
C4_StoreErrorSurfaced ==
    [][\A i \in 1..Len(pending) :
          Rejected(i) =>
              /\ formError' # ""
              /\ pending' = Without(pending, i)
              /\ UNCHANGED <<transactions, editingId, formVars>>]_vars

C6_MonthByMonth ==
    [][\A offset \in {-1, 1} :
          handleMonthChange(offset) =>
              MonthIndex(selectedDate') = MonthIndex(selectedDate) + offset]_vars

\* C7: the in-memory list holds exactly the records of the snapshot delivered
\* last, and a second delivery of the same snapshot changes nothing.
C7_LatestSnapshot ==
    /\ [](/\ Range(transactions) = Range(delivered)
          /\ Len(transactions) = Len(delivered))
    /\ [][Resubscribe =>
             UNCHANGED <<transactions, summary, expenseData, filteredTransactions>>]_vars

C7_Witness ==
    /\ usedIds \ DocIds(docs) # {}
    /\ Len(transactions) = Cardinality(DocIds(docs))
    /\ transactions # <<>>

\* C8: the three figures are the sums by sign over all records (as printed,
\* to two decimals), and balance = income - expense.
C8_SummaryExact ==
    LET all == Range(transactions)
    IN  /\ FixedValue(summary.income) = Rounded(SumOfAmounts({t \in all : t.amount > 0}))
        /\ FixedValue(summary.expense) = Rounded(-SumOfAmounts({t \in all : t.amount < 0}))
        /\ FixedValue(summary.total) = Rounded(SumOfAmounts(all))
        /\ FixedValue(summary.total)
              = FixedValue(summary.income) - FixedValue(summary.expense)

\* C8 as amended: the three figures are the sums by sign over all records,
\* whatever month and filter are selected, each rounded to two decimals, so
\* that balance and income - expense differ by at most 0.01.
C8_SummaryRounded ==
    LET all == Range(transactions)
        gap == FixedValue(summary.total)
                 - (FixedValue(summary.income) - FixedValue(summary.expense))
    IN  /\ FixedValue(summary.income) = Rounded(SumOfAmounts({t \in all : t.amount > 0}))
        /\ FixedValue(summary.expense) = Rounded(-SumOfAmounts({t \in all : t.amount < 0}))
        /\ FixedValue(summary.total) = Rounded(SumOfAmounts(all))
        /\ gap \in {-1, 0, 1}

C8_Witness ==
    /\ MonthSelection # Range(transactions)
    /\ filter # "all"
    /\ FixedValue(summary.total)
          # FixedValue(summary.income) - FixedValue(summary.expense)

\* C9: the displayed list holds a record exactly when it is dated in the
\* selected year and month and the filter is all or the record's type.
C9_DisplayedList ==
    /\ Range(filteredTransactions) =
          {t \in MonthSelection : filter = "all" \/ t.type = filter}
    /\ Len(filteredTransactions) = Cardinality(Range(filteredTransactions))

C9_Witness ==
    /\ filter # "all"
    /\ filteredTransactions # <<>>
    /\ \E t \in Range(transactions) :
          t.type = filter /\ t.date[2] = selectedDate.m + 1 /\ t.date[1] # selectedDate.y

\* C10: the list and the displayed selection are ordered by date, most recent
\* first, records of one date in the order of the delivered snapshot.
C10_OrderedByDate ==
    OrderedByDate(transactions) /\ OrderedByDate(filteredTransactions)

C10_Witness ==
    /\ Len(delivered) >= 2
    /\ Later(delivered[2].date, delivered[1].date)
    /\ Len(filteredTransactions) >= 2

\* C11: the values of the category breakdown add up (to two decimals) to the
\* expense figure that the summary yields on the records typed expense, for
\* every list of records, those whose type disagrees with the sign of the
\* amount included.
C11_BreakdownIsExpenseTotal ==
    Rounded(SumOfValues(expenseData))
        = FixedValue(Summary(ExpenseOnly(transactions)).expense)

\* C11 as amended: for every list of records in which no record typed expense
\* has a positive amount, the values of the category breakdown add up (to two
\* decimals) to the expense figure that the summary yields on the records
\* typed expense.
C11_BreakdownOfSignedExpenses ==
    ExpensesSigned(transactions) =>
        Rounded(SumOfValues(expenseData))
            = FixedValue(Summary(ExpenseOnly(transactions)).expense)

C11_Witness ==
    /\ ExpensesSigned(transactions)
    /\ Cardinality(DOMAIN expenseData) = 2
    /\ FixedValue(Summary(ExpenseOnly(transactions)).expense) > 0

\* C12: every record that a create or update writes is normalized: its amount
\* is non-zero, minus the draft's magnitude when the type is expense and plus
\* the magnitude when it is income, and its text, category, type and date are
\* the draft's values unchanged.
C12_WrittenNormalized ==
    /\ [](/\ \A i \in 1..Len(pending) :
                IsWrite(pending[i]) => Normalized(pending[i].data)
          /\ \A r \in docs : Normalized(r))
    /\ [][(handleAddOrUpdateTransaction /\ pending' # pending) =>
              /\ SentOne
              /\ Sent.data.text = text
              /\ Sent.data.category = category
              /\ Sent.data.type = transactionType
              /\ Sent.data.date = date
              /\ Sent.data.amount = IF transactionType = "expense"
                                    THEN -Magnitude(amount)
                                    ELSE Magnitude(amount)]_vars

C12_Witness ==
    /\ \E r \in docs : r.type = "income" /\ r.amount > 0
    /\ \E i \in 1..Len(pending) :
          /\ pending[i].op = "update"
          /\ pending[i].data.type = "expense" /\ pending[i].data.amount < 0

\* C13: once the auth listener has reported, App eventually leaves the
\* Loading screen and shows the tracker when a user is signed in, the login
\* form when not.
C13_LeavesLoading ==
    authReported ~> (Screen = IF user # NoUser THEN "tracker" ELSE "login")

\* C14: with a fixed signed-in user and no change in the store, the snapshot
\* subscription quiesces: from some point on there is exactly one listener
\* and no run of the effect is due.
C14_SubscriptionQuiesces == <>[](listeners = 1 /\ ~effectDue)

\* C15: when the user starts editing record B while an earlier create or
\* update is still in flight, the completion of the earlier command leaves the
\* session Editing(B) and the draft as the edit left it.
C15_EditSurvivesCompletion ==
    [][\A i \in 1..Len(pending) :
          (/\ Resolved(i)
           /\ IsWrite(pending[i])
           /\ editingId # NoId
           /\ pending[i].op = "update" => pending[i].id # editingId)
          => UNCHANGED <<editingId, formVars>>]_vars

====
